---- MODULE Spec2Model ----
(***************************************************************************)
(* A model of trader.py: the data pipeline of training() and testing(),    *)
(* the backtest loop of __main__, the checkpoint/load sequence of          *)
(* training(), the layer graph built by create_model() and the            *)
(* get_config()/constructor round trip of the custom layers.              *)
(*                                                                         *)
(* Numbers.  The program computes in IEEE floats.  The model computes in   *)
(* exact rationals <<n, d>> (d > 0, lowest terms) extended with the three  *)
(* non-finite floats: NaN = <<0,0>>, +Inf = <<1,0>>, -Inf = <<-1,0>>.      *)
(* Division by zero yields NaN or +-Inf as numpy/pandas do (no exception), *)
(* and every comparison with NaN is false.  Rounding is not modelled.      *)
(*                                                                         *)
(* Sizes.  seq_len is 128, the moving-average width 10 and the history     *)
(* tail 256 rows in the source.  The model keeps the code's arithmetic on  *)
(* these sizes but runs it with small values (seq_len, RollWin) so that    *)
(* the frames can be enumerated; TailLen stays 2 * seq_len as in the       *)
(* source (256 = 2 * 128).                                                 *)
(*                                                                         *)
(* Tensors.  The layer graph is modelled symbolically: a tensor is a       *)
(* record of its shape and of the expression (operation, layer, operands)  *)
(* that computes it.  Learned weights are not modelled, so model.predict   *)
(* is a choice among PredValues, and NaN as soon as a feature is not       *)
(* finite.                                                                 *)
(***************************************************************************)
EXTENDS Integers, Sequences, FiniteSets, TLC

\* ---------------------------------------------------------------- sizes
\* seq_len (trader.py:10 sets 128), scaled.
seq_len == 4
\* width of the moving average, rolling(10) in the source, scaled.
RollWin == 2
\* the csv generator's parameters range over 0..MaxSeed
MaxSeed == 2
\* the testing csv holds at most MaxTest rows
MaxTest == 3
\* batch sizes 1..MaxBatch
MaxBatch == 3

\* df_train[-256:]  (256 = 2 * seq_len)
TailLen == 2 * seq_len
\* rows of the training csv: enough for every split of training() to
\* hold more than seq_len rows
TrainLen == 10 * (seq_len + 1) + RollWin

\* ------------------------------------------------------------ rationals
Abs(x) == IF x < 0 THEN -x ELSE x

RECURSIVE Gcd(_, _)
Gcd(a, b) == IF b = 0 THEN a ELSE Gcd(b, a % b)

Sign(x) == IF x > 0 THEN 1 ELSE IF x < 0 THEN -1 ELSE 0

NaN == <<0, 0>>
Zero == <<0, 1>>
Int2R(k) == <<k, 1>>

\* the float n/d; d = 0 gives NaN or a signed infinity
Frac(n, d) ==
    IF d = 0 THEN <<Sign(n), 0>>
    ELSE LET g == Gcd(Abs(n), Abs(d))
             s == Sign(d)
         IN  <<(s * n) \div g, (s * d) \div g>>

IsNaN(a) == a[1] = 0 /\ a[2] = 0
IsFinite(a) == a[2] # 0

\* a - b  (Inf - Inf = NaN)
RSub(a, b) ==
    IF IsNaN(a) \/ IsNaN(b) THEN NaN
    ELSE IF a[2] = 0 /\ b[2] = 0 THEN (IF a[1] = b[1] THEN NaN ELSE a)
    ELSE IF a[2] = 0 THEN a
    ELSE IF b[2] = 0 THEN <<-b[1], 0>>
    ELSE Frac(a[1] * b[2] - b[1] * a[2], a[2] * b[2])

\* a / b  (x/0 = +-Inf, 0/0 = NaN, Inf/Inf = NaN, x/Inf = 0)
RDiv(a, b) ==
    IF IsNaN(a) \/ IsNaN(b) THEN NaN
    ELSE IF a[2] = 0 /\ b[2] = 0 THEN NaN
    ELSE IF a[2] = 0 THEN <<a[1] * (IF b[1] < 0 THEN -1 ELSE 1), 0>>
    ELSE IF b[2] = 0 THEN Zero
    ELSE Frac(a[1] * b[2], a[2] * b[1])

\* a < b and a > b as floats compare: false when either is NaN
RLess(a, b) ==
    IF IsNaN(a) \/ IsNaN(b) THEN FALSE
    ELSE IF a[2] = 0 /\ b[2] = 0 THEN a[1] < b[1]
    ELSE IF a[2] = 0 THEN a[1] < 0
    ELSE IF b[2] = 0 THEN b[1] > 0
    ELSE a[1] * b[2] < b[1] * a[2]

RGreater(a, b) == RLess(b, a)

\* min and max of a non-empty set of finite values
RMin(S) == CHOOSE m \in S : \A x \in S : ~RLess(x, m)
RMax(S) == CHOOSE m \in S : \A x \in S : ~RLess(m, x)

\* ------------------------------------------------------------- frames
\* A frame is a sequence of rows; a row is <<Open, High, Low, Close>>.
Cols == 1..4
Last(s) == s[Len(s)]
RECURSIVE SumSeq(_)
SumSeq(s) == IF s = <<>> THEN 0 ELSE s[1] + SumSeq(Tail(s))
Values(df) == {df[k][c] : k \in 1..Len(df), c \in Cols}
HasNonFinite(rows) == \E k \in 1..Len(rows) : \E c \in Cols : ~IsFinite(rows[k][c])

\* pd.read_csv: the integers of the file become floats
read_csv(file) == [k \in 1..Len(file) |-> [c \in Cols |-> Int2R(file[k][c])]]

RECURSIVE SumCol(_, _, _, _)
SumCol(df, c, from, to) ==
    IF from > to THEN 0 ELSE df[from][c][1] + SumCol(df, c, from + 1, to)

\* df.rolling(RollWin).mean() followed by dropna: the first RollWin - 1 rows
\* are NaN and dropped.  (The inputs are integer prices, so the sum is exact.)
rolling_mean(df) ==
    IF Len(df) < RollWin THEN <<>>
    ELSE [k \in 1..(Len(df) - RollWin + 1) |->
            [c \in Cols |-> Frac(SumCol(df, c, k, k + RollWin - 1), RollWin)]]

\* pct_change of every column followed by dropna: row k is
\* (df[k+1] - df[k]) / df[k]; the first row is NaN and dropped
pct_change(df) ==
    IF Len(df) < 2 THEN <<>>
    ELSE [k \in 1..(Len(df) - 1) |->
            [c \in Cols |-> RDiv(RSub(df[k + 1][c], df[k][c]), df[k][c])]]

\* (df - min_return) / (max_return - min_return), column by column
normalize(df, min_return, max_return) ==
    [k \in 1..Len(df) |->
        [c \in Cols |-> RDiv(RSub(df[k][c], min_return), RSub(max_return, min_return))]]

\* ------------------------------------------------------------ windows
\* testing(), lines 393-396: X_train holds train_data[i-seq_len:i] for
\* i in range(seq_len, len(train_data)); with 1-based rows, window number j
\* (j = i - seq_len + 1) is rows j .. j + seq_len - 1.
testing_windows(train_data) ==
    IF Len(train_data) <= seq_len THEN <<>>
    ELSE [j \in 1..(Len(train_data) - seq_len) |-> SubSeq(train_data, j, j + seq_len - 1)]

\* testing(), lines 354-396: everything up to the call of the model
testing_locals(df_input) ==
    LET df == pct_change(rolling_mean(df_input))
        min_return == RMin(Values(df))
        max_return == RMax(Values(df))
        train_data == normalize(df, min_return, max_return)
    IN  [min_return |-> min_return,
         max_return |-> max_return,
         train_data |-> train_data,
         X_train    |-> testing_windows(train_data)]

\* model.predict on one window: the weights of stock.h5 are not part of the
\* source, so the output is any of PredValues; a non-finite feature makes
\* every activation, and the output, NaN.
PredValues == {Int2R(-1), Zero, Int2R(1), Int2R(2)}
model_predict(window) == IF HasNonFinite(window) THEN {NaN} ELSE PredValues

\* ----------------------------------------------------------- training()
\* lines 267-271 (and 276-280, 285-289): for i in range(seq_len, len(data))
\* the sample is the window data[i-seq_len:i] and the target data[:, 3][i].
\* With 1-based rows, sample j (j = i - seq_len + 1) is rows j..j+seq_len-1
\* and the Close of row j + seq_len.
\* (make_samples_lookahead: the window shifted by one row, so that it ends
\* with its own target row.)
make_samples_lookahead(data) ==
    IF Len(data) <= seq_len THEN [X |-> <<>>, y |-> <<>>]
    ELSE [X |-> [j \in 1..(Len(data) - seq_len) |-> SubSeq(data, j + 1, j + seq_len)],
          y |-> [j \in 1..(Len(data) - seq_len) |-> data[j + seq_len][4]]]

make_samples(data) ==
    IF Len(data) <= seq_len THEN [X |-> <<>>, y |-> <<>>]
    ELSE [X |-> [j \in 1..(Len(data) - seq_len) |-> SubSeq(data, j, j + seq_len - 1)],
          y |-> [j \in 1..(Len(data) - seq_len) |-> data[j + seq_len][4]]]

\* sorted(df.index.values)[-k]; -0 is index 0, the first label
neg_index(times, k) == IF k = 0 THEN times[1] ELSE times[Len(times) - k + 1]

\* the rows of a labelled frame within [lo, hi) of the index
rows_between(labelled, lo, hi) ==
    LET sel == SelectSeq(labelled, LAMBDA r : r.idx >= lo /\ r.idx < hi)
    IN  [k \in 1..Len(sel) |-> sel[k].row]

\* training(), lines 212-293: everything before the model is created.
\* The index labels of the csv rows are 0, 1, ...; rolling + dropna removes
\* the first RollWin - 1 labels and pct_change + dropna one more.
\* int(0.1 * n) and int(0.2 * n) equal n \div 10 and (2 * n) \div 10 for the
\* lengths used here.
training_locals(file) ==
    LET df0 == pct_change(rolling_mean(read_csv(file)))
        n == Len(df0)
        times == [k \in 1..n |-> RollWin + k - 1]
        last_10pct == neg_index(times, n \div 10)
        last_20pct == neg_index(times, (2 * n) \div 10)
        head == {df0[k][c] : k \in {k \in 1..n : times[k] < last_20pct}, c \in Cols}
        min_return == RMin(head)
        max_return == RMax(head)
        df == normalize(df0, min_return, max_return)
        labelled == [k \in 1..n |-> [idx |-> times[k], row |-> df[k]]]
        train_data == rows_between(labelled, times[1], last_20pct)
        val_data == rows_between(labelled, last_20pct, last_10pct)
        test_data == rows_between(labelled, last_10pct, times[n] + 1)
    IN  [min_return |-> min_return,
         max_return |-> max_return,
         df         |-> df,
         train_data |-> train_data,
         val_data   |-> val_data,
         test_data  |-> test_data,
         train      |-> make_samples(train_data),
         val        |-> make_samples(val_data),
         test       |-> make_samples(test_data)]

\* epochs=50, line 307
epochs == 50
\* files: the checkpoint the callback writes (line 300, relative to the
\* working directory), the one load_model reads (line 311, absolute) and the
\* saved model (line 317)
CkptName == "Transformer+TimeEmbedding.hdf5"
CkptPath(dir) == <<dir, CkptName>>
LoadPath == <<"/content", CkptName>>
Dirs == {"/content", "/home/user"}
Paths == {<<d, f>> : d \in Dirs, f \in {CkptName, "stock.h5"}}
\* weights are named by the run that produced them and the epochs fitted
Weights(run, e) == <<run, e>>
ThisRun == "this run"
NoFile == [exists |-> FALSE, weights |-> Weights("none", 0)]
File(w) == [exists |-> TRUE, weights |-> w]
\* weights of an earlier run, left in a file
StaleWeights == Weights("earlier run", epochs)
\* validation losses an epoch can end with
LossValues == {Int2R(1), Int2R(2)}
PosInf == <<1, 0>>
val_loss_values(t) ==
    IF HasNonFinite(t.train_data) \/ HasNonFinite(t.val_data) THEN {NaN} ELSE LossValues

\* ------------------------------------------------------- layers (graph)
\* lines 12-15
d_k == 256
d_v == 256
n_heads == 12
ff_dim == 256
\* dropout=0.1 (line 140) and Dropout(0.1) (lines 200, 202)
DefaultDropout == Frac(1, 10)

\* A layer object is named by the encoder block that owns it (0: the model
\* itself), its attribute name and its position in a list of layers.
LayerId(owner, name, k) == <<owner, name, k>>

\* The graph of layer calls: a sequence of nodes, a tensor being the number
\* of the node that outputs it.  A node records the operation, the layer
\* object that performs it, the tensors it reads and its output shape.
Apply(g, op, layer, args, shape) ==
    [g   |-> Append(g, [op |-> op, layer |-> layer, args |-> args, shape |-> shape]),
     out |-> Len(g) + 1]

WithLast(shape, n) == [shape EXCEPT ![Len(shape)] = n]

\* Input(shape=(seq_len, 4)), line 193
Input(g, batch) == Apply(g, "Input", LayerId(0, "in_seq", 0), <<>>, <<batch, seq_len, 4>>)

\* Time2Vector.call, lines 52-60: two features per timestep
Time2Vector_call(g, layer, a) ==
    Apply(g, "Time2Vector", layer, <<a>>, <<g[a].shape[1], g[a].shape[2], 2>>)

\* Concatenate(axis=-1), line 195
Concatenate(g, a, b) ==
    Apply(g, "Concatenate", LayerId(0, "concatenate", 0), <<a, b>>,
          WithLast(g[a].shape, g[a].shape[3] + g[b].shape[3]))

\* a + b on tensors of one shape (lines 163, 168)
Add(g, a, b) == Apply(g, "add", LayerId(0, "add", 0), <<a, b>>, g[a].shape)

\* Dropout: the identity unless the pass is a training pass
Dropout(g, layer, a, training) ==
    IF training THEN Apply(g, "Dropout", layer, <<a>>, g[a].shape)
    ELSE [g |-> g, out |-> a]

LayerNormalization(g, layer, a) == Apply(g, "LayerNormalization", layer, <<a>>, g[a].shape)

\* Conv1D(filters, kernel_size=1): every timestep mapped to `filters` features
Conv1D(g, layer, filters, a) == Apply(g, "Conv1D", layer, <<a>>, WithLast(g[a].shape, filters))

Dense(g, layer, units, a) == Apply(g, "Dense", layer, <<a>>, WithLast(g[a].shape, units))

\* SingleAttention.call, lines 97-107: (batch, L, d_v)
SingleAttention_call(g, layer, dv, q, k, v) ==
    Apply(g, "SingleAttention", layer, <<q, k, v>>, WithLast(g[q].shape, dv))

\* MultiAttention.call, lines 131-135: the heads on the same inputs, their
\* concatenation, and the projection back to the width of inputs[0]
RECURSIVE Heads(_, _, _, _, _, _, _)
Heads(g, block, dv, n, q, k, v) ==
    IF n = 0 THEN [g |-> g, outs |-> <<>>]
    ELSE LET rest == Heads(g, block, dv, n - 1, q, k, v)
             h == SingleAttention_call(rest.g, LayerId(block, "attn_heads", n), dv, q, k, v)
         IN  [g |-> h.g, outs |-> Append(rest.outs, h.out)]

MultiAttention_call(g, block, dv, heads, q, k, v) ==
    LET hs == Heads(g, block, dv, heads, q, k, v)
        width == SumSeq([j \in 1..Len(hs.outs) |-> hs.g[hs.outs[j]].shape[3]])
        cat == Apply(hs.g, "concat", LayerId(block, "concat", 0), hs.outs, WithLast(g[q].shape, width))
    IN  Dense(cat.g, LayerId(block, "linear", 0), g[q].shape[3], cat.out)

\* GlobalAveragePooling1D(data_format), line 199: channels_last reads the
\* input as (batch, steps, features) and averages axis 1; channels_first
\* reads it as (batch, features, steps) and averages axis 2
GlobalAveragePooling1D(g, data_format, a) ==
    Apply(g, "GlobalAveragePooling1D", LayerId(0, "pool", 0), <<a>>,
          IF data_format = "channels_last"
          THEN <<g[a].shape[1], g[a].shape[3]>>
          ELSE <<g[a].shape[1], g[a].shape[2]>>)

\* --------------------------------------------------------- layer configs
\* Layer.get_config of the base class
base_config(name) == [name |-> name, trainable |-> TRUE, dtype |-> "float32"]

\* TransformerEncoder.__init__, lines 140-147; **kwargs are dropped
TransformerEncoder_init(dk, dv, heads, ff, dropout) ==
    [class |-> "TransformerEncoder", d_k |-> dk, d_v |-> dv, n_heads |-> heads,
     ff_dim |-> ff, attn_heads |-> <<>>, dropout_rate |-> dropout]

\* Time2Vector.__init__, lines 18-20
Time2Vector_init(len) == [class |-> "Time2Vector", seq_len |-> len]

\* get_config, lines 62-65 and 171-181
get_config(l) ==
    IF l.class = "Time2Vector"
    THEN base_config("time2_vector") @@ [seq_len |-> l.seq_len]
    ELSE base_config("transformer_encoder") @@
         [d_k |-> l.d_k, d_v |-> l.d_v, n_heads |-> l.n_heads, ff_dim |-> l.ff_dim,
          attn_heads |-> l.attn_heads, dropout_rate |-> l.dropout_rate]

\* cls(**config): the entries named like a parameter of __init__ are bound to
\* it, the others are collected by **kwargs, and a parameter with no entry
\* takes its default
from_config(class, config) ==
    IF class = "Time2Vector"
    THEN Time2Vector_init(config.seq_len)
    ELSE TransformerEncoder_init(
            config.d_k, config.d_v, config.n_heads, config.ff_dim,
            IF "dropout" \in DOMAIN config THEN config["dropout"] ELSE DefaultDropout)

\* --------------------------------------------------------- input files
\* The csv files are generated from two parameters: a = b = 0 is a flat
\* series (every return equal), the others vary.
Price(a, b, t) == 10 + ((a * t + b * t * t) % 7)
Max2(x, y) == IF x > y THEN x ELSE y
Min2(x, y) == IF x < y THEN x ELSE y
CsvRow(a, b, t) ==
    <<Price(a, b, t),
      Max2(Price(a, b, t), Price(a, b, t + 1)) + 2,
      Min2(Price(a, b, t), Price(a, b, t + 1)) - 1,
      Price(a, b, t + 1)>>
TrainingFile(a, b) == [t \in 1..TrainLen |-> CsvRow(a, b, t)]
TestRowSet == {<<10, 12, 9, 10>>, <<13, 16, 12, 14>>}
RECURSIVE SeqsUpTo(_, _)
SeqsUpTo(S, n) ==
    IF n = 0 THEN {<<>>}
    ELSE LET shorter == SeqsUpTo(S, n - 1)
         IN  shorter \cup {Append(s, x) : s \in shorter, x \in S}

\* ---------------------------------------------------------------- state
VARIABLES
    pc,          \* position of the running program
    csv,         \* rows of the training csv file
    \* __main__ (lines 416-446)
    df_train,    \* the history frame handed to testing()
    df_test,     \* rows of the testing csv
    i,           \* index of the row the loop is at (0-based, as iterrows)
    prev_pred,
    pred,
    unit,
    output,      \* the lines written to the output file, as integers
    call,        \* locals of the latest testing() call
    \* training() (lines 211-336)
    cwd,         \* working directory of the process
    files,       \* the model files on disk: path -> [exists, weights]
    epoch,       \* epochs of fit completed
    best,        \* ModelCheckpoint.best
    model,       \* weights held by the variable model
    tr,          \* locals of training() before the model is created
    \* create_model() (lines 185-207) evaluated on one batch
    batch,       \* number of windows in the batch
    training,    \* whether the pass is a training pass (dropout active)
    graph,       \* the layer calls made so far
    in_seq,      \* tensors (node numbers; 0: not yet assigned)
    x,
    block,       \* the encoder block being evaluated, 1..3
    inputs,      \* TransformerEncoder.call: inputs[0]
    attn_layer,
    ff_layer,
    \* a custom layer, its config and the layer rebuilt from it
    layer,
    config,
    rebuilt

mainVars == <<df_train, df_test, i, prev_pred, pred, unit, output, call>>
trainVars == <<cwd, files, epoch, best, model, tr>>
modelVars == <<batch, training, graph, in_seq, x, block, inputs, attn_layer, ff_layer>>
cfgVars == <<layer, config, rebuilt>>
vars == <<pc, csv, mainVars, trainVars, modelVars, cfgVars>>

NoCall == [min_return |-> Zero, max_return |-> Zero, train_data |-> <<>>, X_train |-> <<>>]

MainIdle ==
    /\ df_train = <<>> /\ df_test = <<>> /\ i = 0
    /\ prev_pred = Zero /\ pred = Zero /\ unit = 0 /\ output = <<>>
    /\ call = NoCall

NoSamples == [X |-> <<>>, y |-> <<>>]
NoTraining ==
    [min_return |-> Zero, max_return |-> Zero, df |-> <<>>,
     train_data |-> <<>>, val_data |-> <<>>, test_data |-> <<>>,
     train |-> NoSamples, val |-> NoSamples, test |-> NoSamples]

TrainIdle ==
    /\ cwd = "/content" /\ files = [p \in Paths |-> NoFile]
    /\ epoch = 0 /\ best = PosInf /\ model = Weights(ThisRun, 0) /\ tr = NoTraining

ModelIdle ==
    /\ batch = 1 /\ training = FALSE /\ graph = <<>> /\ in_seq = 0 /\ x = 0
    /\ block = 1 /\ inputs = 0 /\ attn_layer = 0 /\ ff_layer = 0

NoLayer == [class |-> "None"]
NoConfig == [name |-> "None"]
CfgIdle == layer = NoLayer /\ config = NoConfig /\ rebuilt = NoLayer

\* ------------------------------------------------------------ __main__
\* Decide with the position test of the buy branch left out
DecideBuyAlways(p, prev, u) ==
    IF RGreater(p, prev)
    THEN [sig |-> 1, unit |-> u + 1]
    ELSE IF u = 1 THEN [sig |-> -1, unit |-> u - 1] ELSE [sig |-> 0, unit |-> u]

\* Decide with "not less than" in place of "greater than"
DecideGeq(p, prev, u) ==
    IF ~RLess(p, prev)
    THEN IF u = 0 THEN [sig |-> 1, unit |-> u + 1] ELSE [sig |-> 0, unit |-> u]
    ELSE IF u = 1 THEN [sig |-> -1, unit |-> u - 1] ELSE [sig |-> 0, unit |-> u]

\* lines 432-443: the line written and the position after it
Decide(p, prev, u) ==
    IF RGreater(p, prev)
    THEN IF u = 0 THEN [sig |-> 1, unit |-> u + 1] ELSE [sig |-> 0, unit |-> u]
    ELSE IF u = 1 THEN [sig |-> -1, unit |-> u - 1] ELSE [sig |-> 0, unit |-> u]

\* lines 416-426: both files read, the history cut to its last TailLen rows
MainInit ==
    /\ pc = "loop"
    /\ \E a \in 0..MaxSeed, b \in 0..MaxSeed : csv = TrainingFile(a, b)
    /\ df_train = SubSeq(read_csv(csv), Len(csv) - TailLen + 1, Len(csv))
    /\ df_test \in {read_csv(f) : f \in SeqsUpTo(TestRowSet, MaxTest)}
    /\ i = 0
    /\ prev_pred = Zero
    /\ pred = Zero
    /\ unit = 0
    /\ output = <<>>
    /\ call = NoCall
    /\ TrainIdle /\ ModelIdle /\ CfgIdle

\* one pass of the loop body, lines 427-446, for a row that is not the last
Iterate ==
    /\ pc = "loop"
    /\ i < Len(df_test)
    /\ i # Len(df_test) - 1
    /\ LET loc == testing_locals(df_train)
       IN  /\ call' = loc
           /\ IF loc.X_train = <<>>
              THEN \* train_pred[-1] of no prediction: the program stops
                   /\ pc' = "error"
                   /\ UNCHANGED <<df_train, i, prev_pred, pred, unit, output>>
              ELSE \E p \in model_predict(Last(loc.X_train)) :
                   LET d == Decide(p, prev_pred, unit)
                   IN  /\ pred' = p
                       /\ output' = Append(output, d.sig)
                       /\ unit' = d.unit
                       /\ df_train' = Append(df_train, df_test[i + 1])
                       /\ prev_pred' = p
                       /\ i' = i + 1
                       /\ pc' = pc
    /\ UNCHANGED <<csv, df_test, trainVars, modelVars, cfgVars>>

\* line 428-429: the last row ends the loop unprocessed
Break ==
    /\ pc = "loop"
    /\ i < Len(df_test)
    /\ i = Len(df_test) - 1
    /\ pc' = "done"
    /\ UNCHANGED <<csv, mainVars, trainVars, modelVars, cfgVars>>

\* line 427 with no row left (an empty testing csv)
Exhausted ==
    /\ pc = "loop"
    /\ i >= Len(df_test)
    /\ pc' = "done"
    /\ UNCHANGED <<csv, mainVars, trainVars, modelVars, cfgVars>>

MainNext == Iterate \/ Break \/ Exhausted

Spec == MainInit /\ [][MainNext]_vars

\* ----------------------------------------------------------- training()
TrainInit ==
    /\ pc = "start"
    /\ \E a \in 0..MaxSeed, b \in 0..MaxSeed : csv = TrainingFile(a, b)
    /\ cwd \in Dirs
    /\ \E f \in {NoFile, File(StaleWeights)} :
          files = [p \in Paths |-> IF p = LoadPath THEN f ELSE NoFile]
    /\ epoch = 0
    /\ best = PosInf
    /\ model = Weights(ThisRun, 0)
    /\ tr = NoTraining
    /\ MainIdle /\ ModelIdle /\ CfgIdle

\* lines 212-303: the frames, the samples, the model and the callback
Preprocess ==
    /\ pc = "start"
    /\ tr' = training_locals(csv)
    /\ pc' = "fit"
    /\ UNCHANGED <<csv, mainVars, cwd, files, epoch, best, model, modelVars, cfgVars>>

\* ModelCheckpoint(save_best_only=True) at the end of an epoch: the model
\* is written when val_loss is less than the best so far
checkpoint(fs, dir, b, loss, w) ==
    IF RLess(loss, b)
    THEN [files |-> [fs EXCEPT ![CkptPath(dir)] = File(w)], best |-> loss]
    ELSE [files |-> fs, best |-> b]

\* one epoch of model.fit (lines 305-309) with its callback
Epoch ==
    /\ pc = "fit"
    /\ epoch < epochs
    /\ epoch' = epoch + 1
    /\ model' = Weights(ThisRun, epoch + 1)
    /\ \E loss \in val_loss_values(tr) :
          LET c == checkpoint(files, cwd, best, loss, model')
          IN  files' = c.files /\ best' = c.best
    /\ UNCHANGED <<pc, csv, mainVars, cwd, tr, modelVars, cfgVars>>

\* lines 311-315: load_model of the absolute path; a missing file raises
Load ==
    /\ pc = "fit"
    /\ epoch = epochs
    /\ IF files[LoadPath].exists
       THEN model' = files[LoadPath].weights /\ pc' = "loaded"
       ELSE model' = model /\ pc' = "error"
    /\ UNCHANGED <<csv, mainVars, cwd, files, epoch, best, tr, modelVars, cfgVars>>

\* line 317: model.save('stock.h5')
Save ==
    /\ pc = "loaded"
    /\ files' = [files EXCEPT ![<<cwd, "stock.h5">>] = File(model)]
    /\ pc' = "saved"
    /\ UNCHANGED <<csv, mainVars, cwd, epoch, best, model, tr, modelVars, cfgVars>>

\* lines 324-336: predictions and metrics of the loaded model
Evaluate ==
    /\ pc = "saved"
    /\ pc' = "done"
    /\ UNCHANGED <<csv, mainVars, trainVars, modelVars, cfgVars>>

TrainNext == Preprocess \/ Epoch \/ Load \/ Save \/ Evaluate

SpecTraining == TrainInit /\ [][TrainNext]_vars

\* -------------------------------------------------------- create_model()
\* The graph of lines 193-203, evaluated a statement at a time on a batch.
ModelInit ==
    /\ pc = "input"
    /\ batch \in 1..MaxBatch
    /\ training \in BOOLEAN
    /\ graph = <<>> /\ in_seq = 0 /\ x = 0
    /\ block = 1 /\ inputs = 0 /\ attn_layer = 0 /\ ff_layer = 0
    /\ csv = <<>>
    /\ MainIdle /\ TrainIdle /\ CfgIdle

ModelFrame == UNCHANGED <<csv, mainVars, trainVars, cfgVars, batch, training>>

\* line 193
InputLayer ==
    /\ pc = "input"
    /\ LET r == Input(graph, batch)
       IN  graph' = r.g /\ in_seq' = r.out /\ x' = x
    /\ pc' = "time_embedding"
    /\ ModelFrame /\ UNCHANGED <<block, inputs, attn_layer, ff_layer>>

\* line 194
TimeEmbedding ==
    /\ pc = "time_embedding"
    /\ LET r == Time2Vector_call(graph, LayerId(0, "time_embedding", 0), in_seq)
       IN  graph' = r.g /\ x' = r.out
    /\ pc' = "concat"
    /\ ModelFrame /\ UNCHANGED <<in_seq, block, inputs, attn_layer, ff_layer>>

\* line 195
Concat ==
    /\ pc = "concat"
    /\ LET r == Concatenate(graph, in_seq, x)
       IN  graph' = r.g /\ x' = r.out
    /\ pc' = "enc_call"
    /\ ModelFrame /\ UNCHANGED <<in_seq, block, inputs, attn_layer, ff_layer>>

\* lines 196-198: attn_layerN((x, x, x)) enters TransformerEncoder.call
EncCall ==
    /\ pc = "enc_call"
    /\ inputs' = x
    /\ pc' = "enc_attn"
    /\ ModelFrame /\ UNCHANGED <<graph, in_seq, x, block, attn_layer, ff_layer>>

\* line 161
EncAttention ==
    /\ pc = "enc_attn"
    /\ LET r == MultiAttention_call(graph, block, d_v, n_heads, inputs, inputs, inputs)
       IN  graph' = r.g /\ attn_layer' = r.out
    /\ pc' = "enc_attn_dropout"
    /\ ModelFrame /\ UNCHANGED <<in_seq, x, block, inputs, ff_layer>>

\* line 162
EncAttnDropout ==
    /\ pc = "enc_attn_dropout"
    /\ LET r == Dropout(graph, LayerId(block, "attn_dropout", 0), attn_layer, training)
       IN  graph' = r.g /\ attn_layer' = r.out
    /\ pc' = "enc_attn_normalize"
    /\ ModelFrame /\ UNCHANGED <<in_seq, x, block, inputs, ff_layer>>

\* line 163
EncAttnNormalize ==
    /\ pc = "enc_attn_normalize"
    /\ LET sum == Add(graph, inputs, attn_layer)
           r == LayerNormalization(sum.g, LayerId(block, "attn_normalize", 0), sum.out)
       IN  graph' = r.g /\ attn_layer' = r.out
    /\ pc' = "enc_ff1"
    /\ ModelFrame /\ UNCHANGED <<in_seq, x, block, inputs, ff_layer>>

\* line 165
EncFF1 ==
    /\ pc = "enc_ff1"
    /\ LET r == Conv1D(graph, LayerId(block, "ff_conv1D_1", 0), ff_dim, attn_layer)
       IN  graph' = r.g /\ ff_layer' = r.out
    /\ pc' = "enc_ff2"
    /\ ModelFrame /\ UNCHANGED <<in_seq, x, block, inputs, attn_layer>>

\* line 166; the filters are input_shape[0][-1] (line 156)
EncFF2 ==
    /\ pc = "enc_ff2"
    /\ LET r == Conv1D(graph, LayerId(block, "ff_conv1D_2", 0), graph[inputs].shape[3], ff_layer)
       IN  graph' = r.g /\ ff_layer' = r.out
    /\ pc' = "enc_ff_dropout"
    /\ ModelFrame /\ UNCHANGED <<in_seq, x, block, inputs, attn_layer>>

\* line 167
EncFFDropout ==
    /\ pc = "enc_ff_dropout"
    /\ LET r == Dropout(graph, LayerId(block, "ff_dropout", 0), ff_layer, training)
       IN  graph' = r.g /\ ff_layer' = r.out
    /\ pc' = "enc_ff_normalize"
    /\ ModelFrame /\ UNCHANGED <<in_seq, x, block, inputs, attn_layer>>

\* line 168
EncFFNormalize ==
    /\ pc = "enc_ff_normalize"
    /\ LET sum == Add(graph, inputs, ff_layer)
           r == LayerNormalization(sum.g, LayerId(block, "ff_normalize", 0), sum.out)
       IN  graph' = r.g /\ ff_layer' = r.out
    /\ pc' = "enc_return"
    /\ ModelFrame /\ UNCHANGED <<in_seq, x, block, inputs, attn_layer>>

\* line 169 and the assignment to x in lines 196-198
EncReturn ==
    /\ pc = "enc_return"
    /\ x' = ff_layer
    /\ IF block < 3
       THEN block' = block + 1 /\ pc' = "enc_call"
       ELSE block' = block /\ pc' = "pool"
    /\ ModelFrame /\ UNCHANGED <<graph, in_seq, inputs, attn_layer, ff_layer>>

\* line 199
Pool ==
    /\ pc = "pool"
    /\ LET r == GlobalAveragePooling1D(graph, "channels_first", x)
       IN  graph' = r.g /\ x' = r.out
    /\ pc' = "head_dropout_1"
    /\ ModelFrame /\ UNCHANGED <<in_seq, block, inputs, attn_layer, ff_layer>>

\* lines 200 and 202
HeadDropout ==
    /\ pc \in {"head_dropout_1", "head_dropout_2"}
    /\ LET r == Dropout(graph, LayerId(0, pc, 0), x, training)
       IN  graph' = r.g /\ x' = r.out
    /\ pc' = (IF pc = "head_dropout_1" THEN "dense_64" ELSE "dense_1")
    /\ ModelFrame /\ UNCHANGED <<in_seq, block, inputs, attn_layer, ff_layer>>

\* line 201
Dense64 ==
    /\ pc = "dense_64"
    /\ LET r == Dense(graph, LayerId(0, "dense_64", 0), 64, x)
       IN  graph' = r.g /\ x' = r.out
    /\ pc' = "head_dropout_2"
    /\ ModelFrame /\ UNCHANGED <<in_seq, block, inputs, attn_layer, ff_layer>>

\* line 203
Dense1 ==
    /\ pc = "dense_1"
    /\ LET r == Dense(graph, LayerId(0, "dense_1", 0), 1, x)
       IN  graph' = r.g /\ x' = r.out
    /\ pc' = "done"
    /\ ModelFrame /\ UNCHANGED <<in_seq, block, inputs, attn_layer, ff_layer>>

ModelNext ==
    \/ InputLayer \/ TimeEmbedding \/ Concat
    \/ EncCall \/ EncAttention \/ EncAttnDropout \/ EncAttnNormalize
    \/ EncFF1 \/ EncFF2 \/ EncFFDropout \/ EncFFNormalize \/ EncReturn
    \/ Pool \/ HeadDropout \/ Dense64 \/ Dense1

SpecModel == ModelInit /\ [][ModelNext]_vars

\* ------------------------------------------------- config round trip
\* hyperparameters a layer can be constructed with
\* (those of create_model among them)
DropoutValues == {DefaultDropout, Frac(2, 10), Frac(1, 2)}
SeqLenValues == {seq_len, 2 * seq_len}
Layers ==
    {TransformerEncoder_init(dk, dv, h, ff, p) :
        dk \in {64, d_k}, dv \in {64, d_v}, h \in {1, n_heads},
        ff \in {128, ff_dim}, p \in DropoutValues}
    \cup {Time2Vector_init(len) : len \in SeqLenValues}

CfgInit ==
    /\ pc = "built"
    /\ layer \in Layers
    /\ config = NoConfig
    /\ rebuilt = NoLayer
    /\ csv = <<>>
    /\ MainIdle /\ TrainIdle /\ ModelIdle

\* layer.get_config(), as model.save calls it
GetConfig ==
    /\ pc = "built"
    /\ config' = get_config(layer)
    /\ pc' = "saved"
    /\ UNCHANGED <<csv, mainVars, trainVars, modelVars, layer, rebuilt>>

\* the class called with the config as keyword arguments
FromConfig ==
    /\ pc = "saved"
    /\ rebuilt' = from_config(layer.class, config)
    /\ pc' = "rebuilt"
    /\ UNCHANGED <<csv, mainVars, trainVars, modelVars, layer, config>>

CfgNext == GetConfig \/ FromConfig

SpecConfig == CfgInit /\ [][CfgNext]_vars

\* ================================================================ claims
\* testing() has been called at least once
Called == call # NoCall

\* C1: every processed test row appends exactly one signal from {1, -1, 0}:
\* 1 exactly when the new prediction is greater than the previous one and
\* unit is 0, -1 exactly when it is not greater and unit is 1, 0 otherwise;
\* the previous prediction is 0 before the first row and the latest
\* prediction afterwards.
C1_SignalRule ==
    /\ [](i = 0 => prev_pred = Zero)
    /\ [][i' # i =>
            /\ i' = i + 1
            /\ \E sig \in {1, -1, 0} : output' = Append(output, sig)
            /\ (Last(output') = 1) <=> (RGreater(pred', prev_pred) /\ unit = 0)
            /\ (Last(output') = -1) <=> (~RGreater(pred', prev_pred) /\ unit = 1)
            /\ prev_pred' = pred']_vars

\* a buy followed by a sell has been written
C1_Witness == output = <<1, -1>>

\* C10: unit is 0 or 1 and is the sum of the signals written; a buy is
\* written only at position 0 and a sell only at position 1, so buys and
\* sells alternate, starting with a buy.
C10_Position ==
    /\ unit \in {0, 1}
    /\ unit = SumSeq(output)
    /\ \A k \in 1..Len(output) :
          /\ output[k] = 1 => SumSeq(SubSeq(output, 1, k - 1)) = 0
          /\ output[k] = -1 => SumSeq(SubSeq(output, 1, k - 1)) = 1

\* two rows processed and a position held
C10_Witness == Len(output) = 2 /\ unit = 1

\* C2: the prediction testing() returns is the model's output for the
\* latest seq_len rows of the normalized history, rows n-seq_len .. n-1.
C2_LatestWindow ==
    (Called /\ Len(call.train_data) > seq_len) =>
        LET n == Len(call.train_data)
        IN  Last(call.X_train) = SubSeq(call.train_data, n - seq_len + 1, n)

\* C3: every testing() call normalizes with the min_return and max_return
\* that training() computed from the training slice.
C3_SameNormalization ==
    Called =>
        /\ call.min_return = training_locals(csv).min_return
        /\ call.max_return = training_locals(csv).max_return

\* C4: a history whose max_return equals its min_return is rejected with an
\* error: no non-finite feature reaches the model and no signal is derived
\* from such a call.
C4_DegenerateRejected ==
    (Called /\ call.min_return = call.max_return) =>
        /\ pc = "error"
        /\ ~HasNonFinite(call.train_data)

\* C9: in training(), sample j of every split is the seq_len rows that
\* precede its target row within that split, and the target is the Close of
\* the row right after the window, inside the same split.  Stated on the
\* whole normalized frame tr.df, of which the splits are consecutive parts.
SplitOk(samples, data, off) ==
    /\ data = SubSeq(tr.df, off + 1, off + Len(data))
    /\ Len(samples.X) = (IF Len(data) > seq_len THEN Len(data) - seq_len ELSE 0)
    /\ Len(samples.y) = Len(samples.X)
    /\ \A j \in 1..Len(samples.X) :
          /\ samples.X[j] = SubSeq(tr.df, off + j, off + j + seq_len - 1)
          /\ off + j + seq_len <= off + Len(data)
          /\ samples.y[j] = tr.df[off + j + seq_len][4]

C9_NoLookAhead ==
    pc # "start" =>
        /\ Len(tr.train_data) + Len(tr.val_data) + Len(tr.test_data) = Len(tr.df)
        /\ SplitOk(tr.train, tr.train_data, 0)
        /\ SplitOk(tr.val, tr.val_data, Len(tr.train_data))
        /\ SplitOk(tr.test, tr.test_data, Len(tr.train_data) + Len(tr.val_data))

\* every split has produced a sample from finite, varying data
C9_Witness ==
    /\ pc = "fit"
    /\ Len(tr.train.X) > 1 /\ Len(tr.val.X) >= 1 /\ Len(tr.test.X) >= 1
    /\ ~HasNonFinite(tr.df)
    /\ tr.train.X[1] # tr.train.X[2]

\* C7: the file load_model reads is the file the checkpoint callback wrote:
\* once fit has written a checkpoint it is at the path that will be loaded,
\* the load never fails, and the model evaluated is that snapshot.
C7_LoadsCheckpoint ==
    /\ (pc = "fit" /\ files[CkptPath(cwd)].exists) => CkptPath(cwd) = LoadPath
    /\ pc # "error"
    /\ pc \in {"loaded", "saved", "done"} =>
          /\ files[CkptPath(cwd)].exists
          /\ model = files[CkptPath(cwd)].weights

\* C5: the second residual connection of TransformerEncoder.call adds the
\* feed-forward output to residual_1, the output of attn_normalize: the
\* block returns ff_normalize(residual_1 + ff_out), ff_out being the
\* feed-forward sublayer (conv 1, conv 2, dropout) applied to residual_1.
\* At enc_return the variable attn_layer holds residual_1.
FFSource(t) ==
    LET d == IF graph[t].op = "Dropout" THEN graph[t].args[1] ELSE t
        c2 == graph[d]
        c1 == graph[c2.args[1]]
    IN  IF c2.op = "Conv1D" /\ c1.op = "Conv1D" THEN c1.args[1] ELSE 0

C5_SecondResidual ==
    pc = "enc_return" =>
        LET out == graph[ff_layer]
            sum == graph[out.args[1]]
        IN  /\ out.op = "LayerNormalization"
            /\ out.layer = LayerId(block, "ff_normalize", 0)
            /\ sum.op = "add"
            /\ graph[attn_layer].layer = LayerId(block, "attn_normalize", 0)
            /\ sum.args[1] = attn_layer
            /\ FFSource(sum.args[2]) = attn_layer

\* C6: the pooling step averages over the timestep axis of the
\* (batch, seq_len, 6) output of the third block: the tensor handed to the
\* regression head has shape (batch, 6).
C6_PooledShape ==
    pc = "head_dropout_1" =>
        /\ graph[x].op = "GlobalAveragePooling1D"
        /\ graph[graph[x].args[1]].shape = <<batch, seq_len, 6>>
        /\ graph[x].shape = <<batch, 6>>

\* C8: the layer rebuilt from get_config() has the hyperparameters of the
\* original: d_k, d_v, n_heads, ff_dim and the dropout rate of a
\* TransformerEncoder, seq_len of a Time2Vector.
C8_ConfigRoundTrip ==
    pc = "rebuilt" =>
        /\ rebuilt.class = layer.class
        /\ layer.class = "Time2Vector" => rebuilt.seq_len = layer.seq_len
        /\ layer.class = "TransformerEncoder" =>
              /\ rebuilt.d_k = layer.d_k
              /\ rebuilt.d_v = layer.d_v
              /\ rebuilt.n_heads = layer.n_heads
              /\ rebuilt.ff_dim = layer.ff_dim
              /\ rebuilt.dropout_rate = layer.dropout_rate

====
